---- MODULE Spec2Model ----
(***************************************************************************)
(* Model of cmds-lite: the cat pipeline (src/src/cat.rs), the ls pipeline  *)
(* (src/src/ls.rs) and the ls command line (src/src/main.rs).              *)
(*                                                                         *)
(* Text is a sequence of one-character strings.  The filesystem and the    *)
(* standard input are the environment: what exists(), open(), a line read  *)
(* or a directory enumeration step returns is chosen when the program asks *)
(* and logged in fsLog / input / listed.                                   *)
(***************************************************************************)
EXTENDS Integers, Sequences, FiniteSets, TLC

VARIABLES
    pc,            \* position of the program
    tool,          \* "cat" | "ls" | "fmt": which entry point is running
    args,          \* command-line tokens after the program name
    argi,          \* index of the token the parser is at
    flagi,         \* index of the character inside a flag token, 0 outside
    options,       \* CatOptions
    files,         \* cat: Vec<String> of file paths
    fidx,          \* cat: index of the file run() is at
    line_number,   \* cat: the counter local to read_file / read_stdin
    input,         \* environment log: per input, the lines delivered so far
    fsLog,         \* environment log: per input, how it ended
    ls_options,    \* LsOptions
    dir_path,      \* ls: target path
    path_kind,     \* environment log: what the target path turned out to be
    entries_vec,   \* ls: Vec<FileEntry> of collect_entries
    listed,        \* environment log: directory entries enumerated so far
    todo,          \* ls: entries FileProcessor::process has still to visit
    stdout,        \* lines written to standard output
    stderr,        \* diagnostics written to standard error
    result,        \* what run() returned: "none" | "Ok" | an error kind
    exit_code,     \* process exit status, -1 while running
    fmt_in,        \* format_line: its arguments
    fmt_out        \* format_line: its result

vars == <<pc, tool, args, argi, flagi, options, files, fidx, line_number,
          input, fsLog, ls_options, dir_path, path_kind, entries_vec, listed, todo,
          stdout, stderr, result, exit_code, fmt_in, fmt_out>>

catRunVars == <<fidx, line_number, input, fsLog>>
lsRunVars == <<path_kind, entries_vec, listed, todo>>
parseVars == <<args, argi, flagi>>
fmtVars == <<fmt_in, fmt_out>>

----------------------------------------------------------------------------
(* Bounds *)

MaxFiles == 2       \* longest file list given to cat's run
MaxLines == 2       \* lines the environment delivers in one run of cat
MaxArgs == 2        \* longest command line
MaxLineLen == 2     \* longest line handed to format_line on its own
MaxEntries == 3     \* entries a directory enumeration delivers

----------------------------------------------------------------------------
(* Text *)

TAB == "\t"
\* Option<usize>
None == <<>>
Some(n) == <<n>>

Whitespace == {" ", TAB}

RECURSIVE Concat(_)
Concat(ss) == IF ss = <<>> THEN <<>> ELSE Head(ss) \o Concat(Tail(ss))

RECURSIVE Repeat(_, _)
Repeat(c, n) == IF n <= 0 THEN <<>> ELSE <<c>> \o Repeat(c, n - 1)

DigitChar(d) == <<"0", "1", "2", "3", "4", "5", "6", "7", "8", "9">>[d + 1]

\* Display of an unsigned integer in decimal
RECURSIVE ToDecimal(_)
ToDecimal(n) == IF n < 10 THEN <<DigitChar(n)>>
                ELSE ToDecimal(n \div 10) \o <<DigitChar(n % 10)>>

\* format!("{:w}", n) and format!("{:>w}", n): right-justified, minimum width w
PadLeft(s, w) == Repeat(" ", w - Len(s)) \o s

\* str::replace('\t', "^I")
RECURSIVE ReplaceTabs(_)
ReplaceTabs(s) ==
    IF s = <<>> THEN <<>>
    ELSE (IF Head(s) = TAB THEN <<"^", "I">> ELSE <<Head(s)>>) \o ReplaceTabs(Tail(s))

\* line.trim().is_empty()
IsBlank(line) == \A i \in 1..Len(line) : line[i] \in Whitespace

----------------------------------------------------------------------------
(* cat: options and formatting *)

CatOptionsDefault ==
    [number_lines |-> FALSE, number_nonblank_lines |-> FALSE,
     show_ends |-> FALSE, show_tabs |-> FALSE, squeeze_blank |-> FALSE]

CatOptionsAll ==
    [number_lines : BOOLEAN, number_nonblank_lines : BOOLEAN,
     show_ends : BOOLEAN, show_tabs : BOOLEAN, squeeze_blank : BOOLEAN]

NumberWidth == 6

\* format_line that replaces the tabs of the whole result, prefix included
format_line_tabs_last(line, num, opts) ==
    LET prefix == IF num # None THEN PadLeft(ToDecimal(num[1]), NumberWidth) \o <<TAB>>
                  ELSE <<>>
        whole == prefix \o line
        processed == IF opts.show_tabs THEN ReplaceTabs(whole) ELSE whole
        ends == IF opts.show_ends THEN <<"$">> ELSE <<>>
    IN  processed \o ends

format_line(line, num, opts) ==
    LET prefix == IF num # None THEN PadLeft(ToDecimal(num[1]), NumberWidth) \o <<TAB>>
                  ELSE <<>>
        processed_line == IF opts.show_tabs THEN ReplaceTabs(line) ELSE line
        ends == IF opts.show_ends THEN <<"$">> ELSE <<>>
    IN  prefix \o processed_line \o ends

\* process_line that drops a blank line under squeeze_blank
process_line_squeeze(line, ln, opts) ==
    LET is_blank == IsBlank(line) IN
    IF opts.squeeze_blank /\ is_blank
    THEN [out |-> <<>>, ln |-> ln]
    ELSE IF opts.number_nonblank_lines /\ is_blank
    THEN [out |-> <<format_line(line, None, opts)>>, ln |-> ln]
    ELSE IF opts.number_lines \/ (opts.number_nonblank_lines /\ ~is_blank)
    THEN [out |-> <<format_line(line, Some(ln), opts)>>, ln |-> ln + 1]
    ELSE [out |-> <<format_line(line, None, opts)>>, ln |-> ln]

\* process_line that tests number_lines before number_nonblank_lines
process_line_n_first(line, ln, opts) ==
    LET is_blank == IsBlank(line) IN
    IF opts.number_lines \/ (opts.number_nonblank_lines /\ ~is_blank)
    THEN [out |-> <<format_line(line, Some(ln), opts)>>, ln |-> ln + 1]
    ELSE [out |-> <<format_line(line, None, opts)>>, ln |-> ln]

\* process_line: the lines printed and the counter afterwards
process_line(line, ln, opts) ==
    LET is_blank == IsBlank(line) IN
    IF opts.number_nonblank_lines /\ is_blank
    THEN [out |-> <<format_line(line, None, opts)>>, ln |-> ln]
    ELSE IF opts.number_lines \/ (opts.number_nonblank_lines /\ ~is_blank)
    THEN [out |-> <<format_line(line, Some(ln), opts)>>, ln |-> ln + 1]
    ELSE [out |-> <<format_line(line, None, opts)>>, ln |-> ln]

----------------------------------------------------------------------------
(* cat: run (cat.rs 131-152), the readers and the end of main *)

\* the file list of length n: two paths in turn, so that neighbours differ and
\* a path comes back from the third place on
FileList(n) == [i \in 1..n |-> IF i % 2 = 1 THEN <<"f">> ELSE <<"g">>]
CatLines == {<<"a">>, <<>>, <<TAB>>}
OpenErrors == {"PermissionDenied"}
ReadErrors == {"InvalidData"}

RECURSIVE SeqsUpTo(_, _)
SeqsUpTo(S, n) ==
    IF n = 0 THEN {<<>>}
    ELSE LET shorter == SeqsUpTo(S, n - 1)
         IN  shorter \cup {Append(s, x) : s \in {t \in shorter : Len(t) = n - 1}, x \in S}

RECURSIVE SumLen(_)
SumLen(ss) == IF ss = <<>> THEN 0 ELSE Len(Head(ss)) + SumLen(Tail(ss))

\* the environment still has a line to deliver
MoreLines == SumLen(input) < MaxLines

parseIdle == args = <<>> /\ argi = 0 /\ flagi = 0
lsIdle == /\ ls_options = [show_hidden |-> FALSE, long_format |-> FALSE]
          /\ dir_path = <<>> /\ path_kind = "unknown"
          /\ entries_vec = <<>> /\ listed = <<>> /\ todo = <<>>
fmtIdle == fmt_in = <<>> /\ fmt_out = <<>>
catIdle == /\ options = CatOptionsDefault /\ files = <<>> /\ fidx = 0
           /\ line_number = 0 /\ input = <<>> /\ fsLog = <<>>
outIdle == stdout = <<>> /\ stderr = <<>> /\ result = "none" /\ exit_code = -1

\* pub fn run(files, options): any file list, any option record
InitCat ==
    /\ tool = "cat" /\ pc = "run"
    /\ options \in CatOptionsAll
    /\ files \in {FileList(n) : n \in 0..MaxFiles}
    /\ fidx = 0 /\ line_number = 0 /\ input = <<>> /\ fsLog = <<>>
    /\ parseIdle /\ lsIdle /\ fmtIdle /\ outIdle

catFrame == UNCHANGED <<tool, parseVars, options, files, ls_options, dir_path,
                        lsRunVars, fmtVars>>

\* cat.rs 132-137: stdin when no file is given, else the loop over the files
RunEnter ==
    /\ tool = "cat" /\ pc = "run"
    /\ IF files = <<>> THEN pc' = "stdin" /\ fidx' = 0
                       ELSE pc' = "file" /\ fidx' = 1
    /\ UNCHANGED <<line_number, input, fsLog, stdout, stderr, result, exit_code>>
    /\ catFrame

FirstLineNumberCarried(ln) == IF ln = 0 THEN 1 ELSE ln

\* the counter a reader starts with (cat.rs 45, 63)
FirstLineNumber(ln) == 1

\* cat.rs 60-63
StdinStart ==
    /\ pc = "stdin"
    /\ line_number' = FirstLineNumber(line_number)
    /\ input' = Append(input, <<>>)
    /\ fsLog' = Append(fsLog, "reading")
    /\ pc' = "stdin_lines"
    /\ UNCHANGED <<fidx, stdout, stderr, result, exit_code>>
    /\ catFrame

\* one turn of the loop over reader.lines() (cat.rs 47-50, 65-68)
ReadLine(line) ==
    LET r == process_line(line, line_number, options) IN
    /\ stdout' = stdout \o r.out
    /\ line_number' = r.ln
    /\ input' = [input EXCEPT ![Len(input)] = Append(@, line)]

StdinLine ==
    /\ pc = "stdin_lines" /\ MoreLines
    /\ \E line \in CatLines : ReadLine(line)
    /\ UNCHANGED <<pc, fidx, fsLog, stderr, result, exit_code>>
    /\ catFrame

\* cat.rs 66 with `?` and 134 with `?`: the error leaves run
StdinReadErr ==
    /\ pc = "stdin_lines"
    /\ \E e \in ReadErrors : result' = e
    /\ fsLog' = [fsLog EXCEPT ![Len(fsLog)] = "readerr"]
    /\ pc' = "main_ret"
    /\ UNCHANGED <<fidx, line_number, input, stdout, stderr, exit_code>>
    /\ catFrame

\* cat.rs 70, 134, 150
StdinEof ==
    /\ pc = "stdin_lines"
    /\ result' = "Ok"
    /\ fsLog' = [fsLog EXCEPT ![Len(fsLog)] = "ok"]
    /\ pc' = "main_ret"
    /\ UNCHANGED <<fidx, line_number, input, stdout, stderr, exit_code>>
    /\ catFrame

AfterFailedFileBreak(i) == [pc |-> "file", fidx |-> Len(files) + 1]

\* what follows a file that failed (cat.rs 141 `continue`, 144-146)
AfterFailedFile(i) == [pc |-> "file", fidx |-> i + 1]

\* cat.rs 139-142
FileMissing ==
    /\ pc = "file" /\ fidx <= Len(files)
    /\ stderr' = Append(stderr, <<"cat", files[fidx], "No such file or directory">>)
    /\ input' = Append(input, <<>>)
    /\ fsLog' = Append(fsLog, "missing")
    /\ pc' = AfterFailedFile(fidx).pc
    /\ fidx' = AfterFailedFile(fidx).fidx
    /\ UNCHANGED <<line_number, stdout, result, exit_code>>
    /\ catFrame

\* cat.rs 42 failing, reported at 144-146
FileOpenFail ==
    /\ pc = "file" /\ fidx <= Len(files)
    /\ \E e \in OpenErrors : stderr' = Append(stderr, <<"cat", files[fidx], e>>)
    /\ input' = Append(input, <<>>)
    /\ fsLog' = Append(fsLog, "openerr")
    /\ pc' = AfterFailedFile(fidx).pc
    /\ fidx' = AfterFailedFile(fidx).fidx
    /\ UNCHANGED <<line_number, stdout, result, exit_code>>
    /\ catFrame

\* cat.rs 42-45
FileOpen ==
    /\ pc = "file" /\ fidx <= Len(files)
    /\ line_number' = FirstLineNumber(line_number)
    /\ input' = Append(input, <<>>)
    /\ fsLog' = Append(fsLog, "reading")
    /\ pc' = "file_lines"
    /\ UNCHANGED <<fidx, stdout, stderr, result, exit_code>>
    /\ catFrame

FileLine ==
    /\ pc = "file_lines" /\ MoreLines
    /\ \E line \in CatLines : ReadLine(line)
    /\ UNCHANGED <<pc, fidx, fsLog, stderr, result, exit_code>>
    /\ catFrame

\* cat.rs 48 with `?`, reported at 144-146
FileReadErr ==
    /\ pc = "file_lines"
    /\ \E e \in ReadErrors : stderr' = Append(stderr, <<"cat", files[fidx], e>>)
    /\ fsLog' = [fsLog EXCEPT ![Len(fsLog)] = "readerr"]
    /\ pc' = AfterFailedFile(fidx).pc
    /\ fidx' = AfterFailedFile(fidx).fidx
    /\ UNCHANGED <<line_number, input, stdout, result, exit_code>>
    /\ catFrame

\* cat.rs 52
FileEof ==
    /\ pc = "file_lines"
    /\ fsLog' = [fsLog EXCEPT ![Len(fsLog)] = "ok"]
    /\ pc' = "file"
    /\ fidx' = fidx + 1
    /\ UNCHANGED <<line_number, input, stdout, stderr, result, exit_code>>
    /\ catFrame

\* cat.rs 150 after the loop
RunReturn ==
    /\ pc = "file" /\ fidx > Len(files)
    /\ result' = "Ok"
    /\ pc' = "main_ret"
    /\ UNCHANGED <<fidx, line_number, input, fsLog, stdout, stderr, exit_code>>
    /\ catFrame

\* cat.rs 191-194
CatMainExit ==
    /\ tool = "cat" /\ pc = "main_ret"
    /\ IF result = "Ok"
       THEN exit_code' = 0 /\ stderr' = stderr
       ELSE exit_code' = 1 /\ stderr' = Append(stderr, <<"cat", "Error", result>>)
    /\ pc' = "done"
    /\ UNCHANGED <<fidx, line_number, input, fsLog, stdout, result>>
    /\ catFrame

NextCat ==
    \/ RunEnter \/ StdinStart \/ StdinLine \/ StdinReadErr \/ StdinEof
    \/ FileMissing \/ FileOpenFail \/ FileOpen \/ FileLine \/ FileReadErr
    \/ FileEof \/ RunReturn \/ CatMainExit

SpecCat == InitCat /\ [][NextCat]_vars

----------------------------------------------------------------------------
(* Properties of cat's run, checked under SpecCat *)

Failed(i) == fsLog[i] \in {"missing", "openerr", "readerr"}

\* the inputs that failed so far, in order
FailedIdx == SelectSeq([i \in 1..Len(fsLog) |-> i], LAMBDA i : Failed(i))

\* lines delivered before input i began
Offset(i) == SumLen(SubSeq(input, 1, i - 1))

\* the output line of line j of input i
OutLine(i, j) == stdout[Offset(i) + j]

\* C1: over a non-empty file list a file that is missing or fails to open or
\* read never aborts the run: there is exactly one diagnostic per failed file,
\* naming it, in file order; at the end every file of the list was processed,
\* run returned Ok and the exit code is 0.
CatFailuresNeverAbort ==
    files # <<>> =>
        /\ Len(stderr) = Len(FailedIdx)
        /\ \A k \in 1..Len(stderr) :
              stderr[k][1] = "cat" /\ stderr[k][2] = files[FailedIdx[k]]
        /\ pc = "done" =>
              /\ Len(fsLog) = Len(files)
              /\ \A i \in 1..Len(fsLog) : fsLog[i] # "reading"
              /\ result = "Ok" /\ exit_code = 0

\* a failed file followed by a file that was read to its end and gave output
CatFailureThenOutput ==
    /\ pc = "done"
    /\ \E i, j \in 1..Len(fsLog) : i < j /\ Failed(i) /\ fsLog[j] = "ok" /\ input[j] # <<>>

IsSuffix(t, s) == Len(t) <= Len(s) /\ SubSeq(s, Len(s) - Len(t) + 1, Len(s)) = t

\* C2: whatever the options, squeeze_blank included, every line read gives
\* exactly one output line, none dropped or doubled: the k-th output line ends
\* with the displayed content of the k-th line read, lines in input order
\* within a file and the files in the order given.
CatOneLinePerLine ==
    /\ Len(stdout) = SumLen(input)
    /\ \A i \in 1..Len(input) : \A j \in 1..Len(input[i]) :
          IsSuffix(format_line(input[i][j], None, options), OutLine(i, j))

\* squeeze_blank set, two files read to the end, a blank line in each
CatTwoFilesSqueeze ==
    /\ pc = "done" /\ options.squeeze_blank
    /\ Len(fsLog) = 2 /\ fsLog[1] = "ok" /\ fsLog[2] = "ok"
    /\ Len(input[1]) = 1 /\ IsBlank(input[1][1])
    /\ Len(input[2]) = 1 /\ IsBlank(input[2][1])
    /\ Len(stdout) = 2

\* a line that the numbering flags number
Numbered(line, opts) ==
    IF opts.number_nonblank_lines THEN ~IsBlank(line) ELSE opts.number_lines

NumberPrefix(n) == PadLeft(ToDecimal(n), 6) \o <<TAB>>

\* the numbered lines among the first j lines of `lines`
NumberedAmong(lines, j, opts) ==
    Cardinality({m \in 1..j : Numbered(lines[m], opts)})

\* C3: the counter is local to each input: it is 1 when the lines of a file or
\* of stdin start being read, and the first numbered line of every input
\* carries the number 1, whatever earlier files numbered and whether one failed.
CatCounterLocal ==
    /\ (pc \in {"file_lines", "stdin_lines"} /\ input[Len(input)] = <<>>) => line_number = 1
    /\ \A i \in 1..Len(input) : \A j \in 1..Len(input[i]) :
          (Numbered(input[i][j], options) /\ NumberedAmong(input[i], j - 1, options) = 0)
              => SubSeq(OutLine(i, j), 1, 7) = NumberPrefix(1)

\* a numbered line in the first file and a numbered line in the second
CatSecondFileNumbered ==
    /\ Len(input) >= 2
    /\ \E j \in 1..Len(input[1]) : Numbered(input[1][j], options)
    /\ \E j \in 1..Len(input[2]) : Numbered(input[2][j], options)

\* C4: with number_nonblank_lines set (number_lines set or not) a blank line is
\* printed unnumbered and leaves the counter alone and a non-blank line is
\* printed with the counter, which then grows by one; with only number_lines
\* set every line is numbered; with neither no line is and the counter stays.
\* So the numbered lines of one input carry 1, 2, ..., k.
CatNumbering ==
    /\ \A i \in 1..Len(input) : \A j \in 1..Len(input[i]) :
          OutLine(i, j) =
              (IF Numbered(input[i][j], options)
               THEN NumberPrefix(NumberedAmong(input[i], j, options))
               ELSE <<>>) \o format_line(input[i][j], None, options)
    /\ pc \in {"file_lines", "stdin_lines"} =>
          line_number = 1 + NumberedAmong(input[Len(input)], Len(input[Len(input)]), options)

\* both numbering flags set, a blank line then a non-blank line in one input
CatBlankThenNumbered ==
    /\ options.number_lines /\ options.number_nonblank_lines
    /\ \E i \in 1..Len(input) :
          /\ Len(input[i]) = 2
          /\ IsBlank(input[i][1]) /\ ~IsBlank(input[i][2])
          /\ OutLine(i, 2) = NumberPrefix(1) \o format_line(input[i][2], None, options)

----------------------------------------------------------------------------
(* format_line on its own (cat.rs 92-116), checked under SpecFormat *)

FmtChars == {"a", " ", TAB}
FmtNumbers == {1, 42, 999999, 1000000}

InitFormat ==
    /\ tool = "fmt" /\ pc = "call"
    /\ fmt_in \in [line : SeqsUpTo(FmtChars, MaxLineLen),
                   num : {None} \cup {Some(n) : n \in FmtNumbers},
                   opts : CatOptionsAll]
    /\ fmt_out = <<>>
    /\ parseIdle /\ catIdle /\ lsIdle /\ outIdle

FormatLine ==
    /\ tool = "fmt" /\ pc = "call"
    /\ fmt_out' = format_line(fmt_in.line, fmt_in.num, fmt_in.opts)
    /\ pc' = "done"
    /\ UNCHANGED <<tool, parseVars, options, files, catRunVars, ls_options, dir_path,
                   lsRunVars, stdout, stderr, result, exit_code, fmt_in>>

NextFormat == FormatLine

SpecFormat == InitFormat /\ [][NextFormat]_vars

Digits == {"0", "1", "2", "3", "4", "5", "6", "7", "8", "9"}
DigitValue(c) == CHOOSE d \in 0..9 : DigitChar(d) = c

\* the number a string of decimal digits stands for
RECURSIVE DecimalValue(_)
DecimalValue(ds) ==
    IF ds = <<>> THEN 0
    ELSE 10 * DecimalValue(SubSeq(ds, 1, Len(ds) - 1)) + DigitValue(ds[Len(ds)])

\* p is n right-justified in 6 characters, then one tab
IsNumberPrefix(p, n) ==
    /\ Len(p) >= 7 /\ p[Len(p)] = TAB
    /\ \E d \in 1..(Len(p) - 1) :
          LET pad == SubSeq(p, 1, Len(p) - 1 - d)
              ds == SubSeq(p, Len(p) - d, Len(p) - 1)
          IN  /\ \A i \in 1..Len(pad) : pad[i] = " "
              /\ \A i \in 1..d : ds[i] \in Digits
              /\ (d > 1 => ds[1] # "0")
              /\ DecimalValue(ds) = n
              /\ (pad # <<>> => Len(p) = 7)

\* the content as displayed: character by character, a tab as ^I under show_tabs
Displayed(line, opts) ==
    Concat([i \in 1..Len(line) |->
              IF opts.show_tabs /\ line[i] = TAB THEN <<"^", "I">> ELSE <<line[i]>>])

\* C10: format_line returns the number prefix (present iff a number is given:
\* the number right-justified in 6 characters and one tab, which is never
\* replaced), then the content with every tab as ^I iff show_tabs is set, then
\* one $ iff show_ends is set; with all flags off and no number the result is
\* the line.
FormatLineShape ==
    pc = "done" /\ tool = "fmt" =>
        LET line == fmt_in.line
            opts == fmt_in.opts
            body == Displayed(line, opts) \o (IF opts.show_ends THEN <<"$">> ELSE <<>>)
            plen == Len(fmt_out) - Len(body)
        IN  /\ plen >= 0
            /\ SubSeq(fmt_out, plen + 1, Len(fmt_out)) = body
            /\ (fmt_in.num = None => plen = 0)
            /\ (fmt_in.num # None => IsNumberPrefix(SubSeq(fmt_out, 1, plen), fmt_in.num[1]))
            /\ (opts.show_ends => fmt_out[Len(fmt_out)] = "$")
            /\ ((fmt_in.num = None /\ ~opts.show_ends /\ ~opts.show_tabs) => fmt_out = line)

\* a numbered line with a tab, displayed with show_tabs and show_ends
FormatNumberedTabEnds ==
    /\ pc = "done" /\ tool = "fmt"
    /\ fmt_in.num # None /\ fmt_in.opts.show_tabs /\ fmt_in.opts.show_ends
    /\ \E i \in 1..Len(fmt_in.line) : fmt_in.line[i] = TAB

----------------------------------------------------------------------------
(* Command lines: cat's main (cat.rs 159-189) and ls's main (main.rs 5-28), *)
(* up to the call of run.  One step per token and per flag character.      *)

Tokens ==
    { <<"-", "n">>, <<"-", "b">>, <<"-", "E">>, <<"-", "T">>, <<"-", "A">>,
      <<"-", "s">>, <<"-", "x">>, <<"-", "s", "x", "E">>,
      <<"-", "a">>, <<"-", "l">>, <<"-", "l", "x", "a">>,
      <<"-">>, <<"f">>, <<"d">> }

LsOptionsDefault == [show_hidden |-> FALSE, long_format |-> FALSE]

\* arg.starts_with('-')
StartsWithDash(tok) == Len(tok) >= 1 /\ tok[1] = "-"

\* cat.rs 166
CatIsFlagToken(tok) == StartsWithDash(tok) /\ Len(tok) > 1

\* main.rs 19
LsIsFlagToken(tok) == StartsWithDash(tok)

CatFlagChars == {"n", "b", "E", "T", "A", "s"}
LsFlagChars == {"a", "l"}

\* the match of cat.rs 169-183 with an unknown flag resetting the options
CatApplyFlagReset(opts, flag) ==
    CASE flag = "n" -> [opts EXCEPT !.number_lines = TRUE]
      [] flag = "b" -> [opts EXCEPT !.number_nonblank_lines = TRUE, !.number_lines = FALSE]
      [] flag = "E" -> [opts EXCEPT !.show_ends = TRUE]
      [] flag = "T" -> [opts EXCEPT !.show_tabs = TRUE]
      [] flag = "A" -> [opts EXCEPT !.show_ends = TRUE, !.show_tabs = TRUE]
      [] flag = "s" -> [opts EXCEPT !.squeeze_blank = TRUE]
      [] OTHER -> CatOptionsDefault

\* the match of cat.rs 169-183: the options after one flag character
CatApplyFlag(opts, flag) ==
    CASE flag = "n" -> [opts EXCEPT !.number_lines = TRUE]
      [] flag = "b" -> [opts EXCEPT !.number_nonblank_lines = TRUE, !.number_lines = FALSE]
      [] flag = "E" -> [opts EXCEPT !.show_ends = TRUE]
      [] flag = "T" -> [opts EXCEPT !.show_tabs = TRUE]
      [] flag = "A" -> [opts EXCEPT !.show_ends = TRUE, !.show_tabs = TRUE]
      [] flag = "s" -> [opts EXCEPT !.squeeze_blank = TRUE]
      [] OTHER -> opts

\* cat.rs 182: what the match writes to standard error
CatFlagDiagnostic(flag) ==
    IF flag \in CatFlagChars THEN <<>> ELSE << <<"cat", "invalid option", flag>> >>

\* the match of main.rs 21-25: the options after one flag character
LsApplyFlag(opts, flag) ==
    CASE flag = "a" -> [opts EXCEPT !.show_hidden = TRUE]
      [] flag = "l" -> [opts EXCEPT !.long_format = TRUE]
      [] OTHER -> opts

\* main.rs 24: nothing is written for an unknown flag
LsFlagDiagnostic(flag) == <<>>

\* main.rs 9-13
LsDirPath(as) == IF Len(as) > 0 THEN as[1] ELSE <<".">>

\* where the parser goes after the character at flagi of the token at argi
AfterFlag(tok, ai, fi) ==
    IF fi < Len(tok) THEN [argi |-> ai, flagi |-> fi + 1] ELSE [argi |-> ai + 1, flagi |-> 0]

InitParse ==
    /\ tool \in {"cat", "ls"} /\ pc = "start"
    /\ args \in SeqsUpTo(Tokens, MaxArgs)
    /\ argi = 0 /\ flagi = 0
    /\ catIdle /\ lsIdle /\ fmtIdle /\ outIdle

parseFrame == UNCHANGED <<tool, args, catRunVars, lsRunVars, fmtVars, stdout,
                          result, exit_code>>

\* cat.rs 160-162
CatStart ==
    /\ tool = "cat" /\ pc = "start"
    /\ options' = CatOptionsDefault /\ files' = <<>>
    /\ argi' = 1 /\ flagi' = 0 /\ pc' = "parse"
    /\ UNCHANGED <<ls_options, dir_path, stderr>>
    /\ parseFrame

\* cat.rs 165-166, 185-188: a token is a file unless it is a flag token
CatToken ==
    /\ tool = "cat" /\ pc = "parse" /\ argi <= Len(args) /\ flagi = 0
    /\ IF CatIsFlagToken(args[argi])
       THEN argi' = argi /\ flagi' = 2 /\ files' = files
       ELSE argi' = argi + 1 /\ flagi' = 0 /\ files' = Append(files, args[argi])
    /\ UNCHANGED <<pc, options, ls_options, dir_path, stderr>>
    /\ parseFrame

\* cat.rs 168-184: one flag character
CatFlag ==
    /\ tool = "cat" /\ pc = "parse" /\ argi <= Len(args) /\ flagi >= 2
    /\ LET flag == args[argi][flagi] IN
          /\ options' = CatApplyFlag(options, flag)
          /\ stderr' = stderr \o CatFlagDiagnostic(flag)
    /\ argi' = AfterFlag(args[argi], argi, flagi).argi
    /\ flagi' = AfterFlag(args[argi], argi, flagi).flagi
    /\ UNCHANGED <<pc, files, ls_options, dir_path>>
    /\ parseFrame

\* cat.rs 191: run is called with the files and the options parsed
CatCallRun ==
    /\ tool = "cat" /\ pc = "parse" /\ argi > Len(args)
    /\ pc' = "run"
    /\ UNCHANGED <<argi, flagi, options, files, ls_options, dir_path, stderr>>
    /\ parseFrame

\* main.rs 6-16
LsStart ==
    /\ tool = "ls" /\ pc = "start"
    /\ dir_path' = LsDirPath(args)
    /\ ls_options' = LsOptionsDefault
    /\ argi' = 1 /\ flagi' = 0 /\ pc' = "parse"
    /\ UNCHANGED <<options, files, stderr>>
    /\ parseFrame

\* main.rs 18-19: a token without a leading '-' is passed over
LsToken ==
    /\ tool = "ls" /\ pc = "parse" /\ argi <= Len(args) /\ flagi = 0
    /\ IF LsIsFlagToken(args[argi]) /\ Len(args[argi]) > 1
       THEN argi' = argi /\ flagi' = 2
       ELSE argi' = argi + 1 /\ flagi' = 0
    /\ UNCHANGED <<pc, options, files, ls_options, dir_path, stderr>>
    /\ parseFrame

\* main.rs 20-26: one flag character
LsFlag ==
    /\ tool = "ls" /\ pc = "parse" /\ argi <= Len(args) /\ flagi >= 2
    /\ LET flag == args[argi][flagi] IN
          /\ ls_options' = LsApplyFlag(ls_options, flag)
          /\ stderr' = stderr \o LsFlagDiagnostic(flag)
    /\ argi' = AfterFlag(args[argi], argi, flagi).argi
    /\ flagi' = AfterFlag(args[argi], argi, flagi).flagi
    /\ UNCHANGED <<pc, options, files, dir_path>>
    /\ parseFrame

\* main.rs 31: run is called with the path and the options parsed
LsCallRun ==
    /\ tool = "ls" /\ pc = "parse" /\ argi > Len(args)
    /\ pc' = "run"
    /\ UNCHANGED <<argi, flagi, options, files, ls_options, dir_path, stderr>>
    /\ parseFrame

NextParse ==
    \/ CatStart \/ CatToken \/ CatFlag \/ CatCallRun
    \/ LsStart \/ LsToken \/ LsFlag \/ LsCallRun

SpecParse == InitParse /\ [][NextParse]_vars

----------------------------------------------------------------------------
(* Properties of the command lines, checked under SpecParse *)

\* the places <<i, j>> of the flag characters of the command line
FlagPlaces ==
    LET isFlag(t) == IF tool = "cat" THEN CatIsFlagToken(t) ELSE LsIsFlagToken(t)
    IN  UNION {{<<i, j>> : j \in 2..Len(args[i])} : i \in {k \in 1..Len(args) : isFlag(args[k])}}

FlagAt(pl) == args[pl[1]][pl[2]]

Given(c) == \E pl \in FlagPlaces : FlagAt(pl) = c

Before(p, q) == p[1] < q[1] \/ (p[1] = q[1] /\ p[2] < q[2])

\* C5: the options cat's parsing gives never have number_lines and
\* number_nonblank_lines both set, and when 'b' was given
\* number_nonblank_lines is set and number_lines is not, in any order of the
\* flags.
CatNumberingFlagsExclusive ==
    (tool = "cat" /\ pc \in {"parse", "run"}) =>
        /\ ~(options.number_lines /\ options.number_nonblank_lines)
        /\ (pc = "run" /\ Given("b")) =>
              (options.number_nonblank_lines /\ ~options.number_lines)

\* the first positional token, "." without one
FirstPositionalPath(as) ==
    LET pos == SelectSeq(as, LAMBDA t : ~LsIsFlagToken(t))
    IN  IF pos = <<>> THEN <<".">> ELSE pos[1]

\* C6: the target path of ls is the first positional token of the command
\* line, "." without one; a flag token is never the target path.
LsTargetIsFirstPositional ==
    (tool = "ls" /\ pc \in {"parse", "run"}) =>
        /\ dir_path = FirstPositionalPath(args)
        /\ ~LsIsFlagToken(dir_path)

\* the parser is at a flag character its tool does not know
AtUnknownFlag ==
    /\ pc = "parse" /\ argi <= Len(args) /\ flagi >= 2
    /\ args[argi][flagi] \notin (IF tool = "cat" THEN CatFlagChars ELSE LsFlagChars)

\* the options say exactly what the known flag characters of the command line
\* ask for, and cat's files are the other tokens in order
AllFlagsApplied ==
    /\ tool = "cat" =>
          /\ options.show_ends = (Given("E") \/ Given("A"))
          /\ options.show_tabs = (Given("T") \/ Given("A"))
          /\ options.squeeze_blank = Given("s")
          /\ options.number_nonblank_lines = Given("b")
          /\ options.number_lines =
                \E pl \in FlagPlaces :
                    /\ FlagAt(pl) = "n"
                    /\ ~\E q \in FlagPlaces : FlagAt(q) = "b" /\ Before(pl, q)
          /\ files = SelectSeq(args, LAMBDA t : ~CatIsFlagToken(t))
          /\ ls_options = LsOptionsDefault
    /\ tool = "ls" =>
          /\ ls_options.show_hidden = Given("a")
          /\ ls_options.long_format = Given("l")
          /\ options = CatOptionsDefault

\* the step over an unknown flag character: no option changes, the parser
\* moves on to the next character or token, and standard error grows by
\* `report`
UnknownFlagSkipped(report) ==
    /\ options' = options /\ ls_options' = ls_options
    /\ files' = files /\ dir_path' = dir_path
    /\ pc' = "parse"
    /\ <<argi', flagi'>> = IF flagi < Len(args[argi]) THEN <<argi, flagi + 1>>
                           ELSE <<argi + 1, 0>>
    /\ stderr' = stderr \o report

\* C9: an unknown flag character is not fatal in cat nor in ls: cat reports it
\* when it meets it, ls reports nothing; in both no option changes, parsing
\* goes on with the next character, every known flag before and after it is
\* applied, and run is called.
UnknownFlagNonFatal ==
    [][ /\ AtUnknownFlag =>
              UnknownFlagSkipped(IF tool = "cat"
                                 THEN << <<"cat", "invalid option", args[argi][flagi]>> >>
                                 ELSE <<>>)
        /\ pc' = "run" => AllFlagsApplied'
        /\ (pc = "parse" /\ argi > Len(args)) => pc' = "run" ]_vars

\* C9 as claimed: the unknown flag character is reported in both tools
UnknownFlagReportedInBoth ==
    [][ /\ AtUnknownFlag =>
              UnknownFlagSkipped(<< <<tool, "invalid option", args[argi][flagi]>> >>)
        /\ pc' = "run" => AllFlagsApplied'
        /\ (pc = "parse" /\ argi > Len(args)) => pc' = "run" ]_vars

\* ls reaches run after -lxa: both known flags applied, nothing reported
LsUnknownBetweenKnown ==
    /\ tool = "ls" /\ pc = "run"
    /\ \E i \in 1..Len(args) : args[i] = <<"-", "l", "x", "a">>
    /\ ls_options.show_hidden /\ ls_options.long_format
    /\ stderr = <<>>

----------------------------------------------------------------------------
(* ls: run (ls.rs 161-190) and the end of main (main.rs 31-34) *)

\* code points of the characters that occur in names
Code(c) ==
    CASE c = "." -> 46 [] c = "/" -> 47 [] c = "B" -> 66
      [] c = "a" -> 97 [] c = "b" -> 98 [] c = "d" -> 100
      [] c = "f" -> 102 [] c = "g" -> 103

EntryNames == { <<".", "g">>, <<"a">>, <<"a", "b">>, <<"B">> }

\* fs::Metadata snapshots: a large file rw-r--r-- and a directory rwxr-xr-x
Metas ==
    { [is_dir |-> FALSE, mode |-> 420, size |-> 123456789, mtime |-> 5],
      [is_dir |-> TRUE, mode |-> 493, size |-> 4096, mtime |-> 1700000000] }

LsPaths == { <<".">>, <<"d", "/", "f">>, <<"-", "l">> }
LsErrors == {"PermissionDenied"}

LsOptionsAll == [show_hidden : BOOLEAN, long_format : BOOLEAN]

\* Ordering of two strings by String::cmp: -1, 0 or 1
RECURSIVE StrCmp(_, _)
StrCmp(a, b) ==
    IF a = <<>> /\ b = <<>> THEN 0
    ELSE IF a = <<>> THEN -1
    ELSE IF b = <<>> THEN 1
    ELSE IF Code(Head(a)) < Code(Head(b)) THEN -1
    ELSE IF Code(Head(a)) > Code(Head(b)) THEN 1
    ELSE StrCmp(Tail(a), Tail(b))

\* insertion of e into a sorted vector, after the entries that compare equal
RECURSIVE InsertByName(_, _)
InsertByName(sorted, e) ==
    IF sorted = <<>> THEN <<e>>
    ELSE IF StrCmp(e.name, Head(sorted).name) < 0 THEN <<e>> \o sorted
    ELSE <<Head(sorted)>> \o InsertByName(Tail(sorted), e)

RECURSIVE StableSortByName(_)
StableSortByName(v) ==
    IF v = <<>> THEN <<>>
    ELSE InsertByName(StableSortByName(SubSeq(v, 1, Len(v) - 1)), v[Len(v)])

\* collect_entries without the sort
sort_by_name_skipped(v) == v

\* ls.rs 135: entries_vec.sort_by(|a, b| a.name.cmp(&b.name)), a stable sort
sort_by_name(v) == StableSortByName(v)

\* ls.rs 39-41
is_hidden(e) == e.name # <<>> /\ e.name[1] = "."

\* ls.rs 73-77, 156-158: the one filter
should_process(e, opts) == opts.show_hidden \/ ~is_hidden(e)

\* mode & bit # 0, for a bit given as a power of two
HasBit(mode, bit) == (mode \div bit) % 2 = 1

\* ls.rs 98-110
PermissionString(e) ==
    LET m == e.meta.mode
        ch(bit, c) == IF HasBit(m, bit) THEN c ELSE "-"
    IN  << IF e.meta.is_dir THEN "d" ELSE "-",
           ch(256, "r"), ch(128, "w"), ch(64, "x"),
           ch(32, "r"), ch(16, "w"), ch(8, "x"),
           ch(4, "r"), ch(2, "w"), ch(1, "x") >>

\* ls.rs 82-88
SimpleFormat(e) == IF e.meta.is_dir THEN e.name \o <<"/">> ELSE e.name

\* ls.rs 94-119
LongFormat(e) ==
    PermissionString(e) \o <<" ">> \o PadLeft(ToDecimal(e.meta.size), 8) \o <<" ">>
        \o PadLeft(ToDecimal(e.meta.mtime), 12) \o <<" ">> \o e.name

\* ls.rs 175-179
FormatEntry(e, opts) == IF opts.long_format THEN LongFormat(e) ELSE SimpleFormat(e)

\* Path::file_name: the part after the last '/'
RECURSIVE FileName(_)
FileName(path) ==
    IF \E i \in 1..Len(path) : path[i] = "/"
    THEN FileName(Tail(path))
    ELSE path

LsExitCodeAlwaysZero(res) == 0

\* main.rs 31-34: exit(1) on a failure of run, a normal return otherwise
LsExitCode(res) == IF res = "Ok" THEN 0 ELSE 1

\* pub fn run(dir_path, options): any path, any option record
InitLs ==
    /\ tool = "ls" /\ pc = "run"
    /\ dir_path \in LsPaths
    /\ ls_options \in LsOptionsAll
    /\ path_kind = "unknown"
    /\ entries_vec = <<>> /\ listed = <<>> /\ todo = <<>>
    /\ parseIdle /\ catIdle /\ fmtIdle /\ outIdle

lsFrame == UNCHANGED <<tool, parseVars, options, files, catRunVars, ls_options,
                       dir_path, fmtVars>>

\* ls.rs 164-166
LsNotFound ==
    /\ tool = "ls" /\ pc = "run" /\ dir_path # <<".">>
    /\ path_kind' = "missing"
    /\ result' = "NotFound"
    /\ pc' = "main_ret"
    /\ UNCHANGED <<entries_vec, listed, todo, stdout, stderr, exit_code>>
    /\ lsFrame

\* ls.rs 168-171
LsNotADirectory ==
    /\ tool = "ls" /\ pc = "run" /\ dir_path # <<".">>
    /\ path_kind' = "file"
    /\ stdout' = Append(stdout, FileName(dir_path))
    /\ result' = "Ok"
    /\ pc' = "main_ret"
    /\ UNCHANGED <<entries_vec, listed, todo, stderr, exit_code>>
    /\ lsFrame

\* ls.rs 173, 126 with `?`: read_dir fails
LsReadDirFail ==
    /\ tool = "ls" /\ pc = "run"
    /\ path_kind' = "dir"
    /\ \E e \in LsErrors : result' = e
    /\ pc' = "main_ret"
    /\ UNCHANGED <<entries_vec, listed, todo, stdout, stderr, exit_code>>
    /\ lsFrame

\* ls.rs 126-127
LsReadDir ==
    /\ tool = "ls" /\ pc = "run"
    /\ path_kind' = "dir"
    /\ entries_vec' = <<>>
    /\ pc' = "collect"
    /\ UNCHANGED <<listed, todo, stdout, stderr, result, exit_code>>
    /\ lsFrame

\* ls.rs 129-133: the enumeration gives an entry, in whatever order
LsCollectEntry ==
    /\ pc = "collect" /\ Len(listed) < MaxEntries
    /\ \E n \in EntryNames, m \in Metas :
          /\ \A k \in 1..Len(listed) : listed[k].name # n
          /\ entries_vec' = Append(entries_vec, [name |-> n, meta |-> m])
          /\ listed' = Append(listed, [name |-> n, meta |-> m])
    /\ UNCHANGED <<pc, path_kind, todo, stdout, stderr, result, exit_code>>
    /\ lsFrame

\* ls.rs 130 with `?`: the enumeration fails
LsEntryFail ==
    /\ pc = "collect"
    /\ \E e \in LsErrors : result' = e
    /\ pc' = "main_ret"
    /\ UNCHANGED <<path_kind, entries_vec, listed, todo, stdout, stderr, exit_code>>
    /\ lsFrame

\* ls.rs 131, 29 with `?`: the metadata of an entry cannot be read
LsMetadataFail ==
    /\ pc = "collect" /\ Len(listed) < MaxEntries
    /\ \E n \in EntryNames :
          /\ \A k \in 1..Len(listed) : listed[k].name # n
          /\ \E e \in LsErrors : result' = e
    /\ pc' = "main_ret"
    /\ UNCHANGED <<path_kind, entries_vec, listed, todo, stdout, stderr, exit_code>>
    /\ lsFrame

\* ls.rs 135-136, 173-189: the enumeration is over; sort, then process
LsCollected ==
    /\ pc = "collect"
    /\ entries_vec' = sort_by_name(entries_vec)
    /\ todo' = sort_by_name(entries_vec)
    /\ pc' = "process"
    /\ UNCHANGED <<path_kind, listed, stdout, stderr, result, exit_code>>
    /\ lsFrame

\* ls.rs 147-151: one turn of the loop of process
LsProcessEntry ==
    /\ pc = "process" /\ todo # <<>>
    /\ stdout' = IF should_process(Head(todo), ls_options)
                 THEN Append(stdout, FormatEntry(Head(todo), ls_options))
                 ELSE stdout
    /\ todo' = Tail(todo)
    /\ UNCHANGED <<pc, path_kind, entries_vec, listed, stderr, result, exit_code>>
    /\ lsFrame

\* ls.rs 153
LsProcessed ==
    /\ pc = "process" /\ todo = <<>>
    /\ result' = "Ok"
    /\ pc' = "main_ret"
    /\ UNCHANGED <<path_kind, entries_vec, listed, todo, stdout, stderr, exit_code>>
    /\ lsFrame

\* main.rs 31-34
LsMainExit ==
    /\ tool = "ls" /\ pc = "main_ret"
    /\ stderr' = IF result = "Ok" THEN stderr ELSE Append(stderr, <<"Error", result>>)
    /\ exit_code' = LsExitCode(result)
    /\ pc' = "done"
    /\ UNCHANGED <<path_kind, entries_vec, listed, todo, stdout, result>>
    /\ lsFrame

NextLs ==
    \/ LsNotFound \/ LsNotADirectory \/ LsReadDirFail \/ LsReadDir
    \/ LsCollectEntry \/ LsEntryFail \/ LsMetadataFail \/ LsCollected
    \/ LsProcessEntry \/ LsProcessed \/ LsMainExit

SpecLs == InitLs /\ [][NextLs]_vars

----------------------------------------------------------------------------
(* Properties of ls's run, checked under SpecLs *)

\* a comes before b in the lexicographic order of the code points
NameBefore(a, b) ==
    \E k \in 0..Len(a) :
        /\ k <= Len(b)
        /\ \A i \in 1..k : a[i] = b[i]
        /\ \/ (k = Len(a) /\ k < Len(b))
           \/ (k < Len(a) /\ k < Len(b) /\ Code(a[k + 1]) < Code(b[k + 1]))

\* the entries enumerated that the hidden-file filter lets through
Shown(opts) ==
    {listed[k] : k \in {i \in 1..Len(listed) :
                          opts.show_hidden \/ listed[i].name[1] # "."}}

\* the entries shown, by name
ShownInOrder(opts) ==
    [k \in 1..Cardinality(Shown(opts)) |->
        CHOOSE e \in Shown(opts) :
            Cardinality({x \in Shown(opts) : NameBefore(x.name, e.name)}) = k - 1]

\* s without the hidden entries
WithoutHidden(s) == SelectSeq(s, LAMBDA e : e.name[1] # ".")

\* C7: whatever the directory holds and in whatever order it is enumerated,
\* the lines of ls are the entries that pass the filter, once each, by name:
\* an entry whose name starts with '.' iff show_hidden is set, and the order
\* of the others is the same with and without show_hidden.
LsSortedAndFiltered ==
    (path_kind = "dir" /\ pc \in {"process", "main_ret", "done"} /\ result \in {"none", "Ok"}) =>
        LET expected == ShownInOrder(ls_options)
            nshown == Len(SelectSeq(SubSeq(entries_vec, 1, Len(entries_vec) - Len(todo)),
                                    LAMBDA e : e \in Shown(ls_options)))
        IN  /\ \A k \in 1..(Len(expected) - 1) :
                  NameBefore(expected[k].name, expected[k + 1].name)
            /\ Len(stdout) = nshown
            /\ \A k \in 1..Len(stdout) : stdout[k] = FormatEntry(expected[k], ls_options)
            /\ result = "Ok" => Len(stdout) = Len(expected)
            /\ WithoutHidden(ShownInOrder([ls_options EXCEPT !.show_hidden = TRUE]))
                  = ShownInOrder([ls_options EXCEPT !.show_hidden = FALSE])

\* three entries enumerated out of order, a hidden one among them, listed
\* without it
LsUnsortedWithHidden ==
    /\ pc = "done" /\ result = "Ok" /\ path_kind = "dir"
    /\ ~ls_options.show_hidden
    /\ Len(listed) = 3
    /\ NameBefore(listed[3].name, listed[2].name)
    /\ NameBefore(listed[2].name, listed[1].name)
    /\ listed[3].name[1] = "."
    /\ Len(stdout) = 2

\* C8: when run returns a failure nothing was written to standard output and
\* the process exits with 1: a path that does not exist gives NotFound, and a
\* failure while enumerating fails the whole listing, the entries enumerated
\* before it included.
LsFailureWithoutOutput ==
    (tool = "ls" /\ result \notin {"none", "Ok"}) =>
        /\ stdout = <<>>
        /\ pc = "done" => exit_code = 1
        /\ path_kind = "missing" => result = "NotFound"
        /\ path_kind # "missing" => result # "NotFound"

\* the enumeration failed after entries were enumerated, and the process ended
LsFailedAfterEntries ==
    /\ pc = "done" /\ path_kind = "dir"
    /\ result \notin {"none", "Ok"}
    /\ Len(listed) >= 2

====
